---- MODULE Spec2Model ----
(***************************************************************************)
(* A model of tools/data_tool.py: the DataTool cache (_get_cached,         *)
(* _set_cache, _fetch_or_cache), the getters built on it, and the          *)
(* derivations computed from the cached primitives.                        *)
(*                                                                         *)
(* Python values: a list is a sequence, a dict is a record, the empty      *)
(* list and the empty dict are both <<>>.  Optional[x] is None or          *)
(* Some(x).  ttl_seconds = None is the number Permanent.                   *)
(***************************************************************************)
EXTENDS Integers, Sequences, FiniteSets, TLC

(* ------------------------------ bounds -------------------------------- *)

\* the largest clock value the TTL specification reaches
MaxTime == 3
\* the largest FixedTTL the TTL specification stores with
MaxTTL == 2
\* the number of calls the sequential caller makes
MaxCalls == 3
\* the number of times the provider's data changes
MaxChanges == 1
\* the number of times the sequential caller lets time pass
MaxAdvances == 1
\* the number of threads that call the getters concurrently
NThreads == 2
\* the longest game log of which every sequence of results is tried
MaxShort == 5
\* the most games older than the ten most recent ones in a long game log
MaxOlder == 2
\* the lowest league rank tried
MaxRank == 12
\* the largest roster tried
MaxRoster == 11
\* the period with which the players' game logs repeat along the roster
LogPeriod == 3
\* the most games of the team in a season log whose every order is tried
MaxSeason == 6

(* ------------------------- program constants -------------------------- *)

\* ttl_seconds = None: the permanent policy of get_historical_performance
Permanent == -1
\* datetime.max, the expiry _set_cache gives an entry that never expires
DatetimeMax == 99999999

(* ------------------------------ values -------------------------------- *)

None == [none |-> TRUE]
Some(d) == [some |-> d]

\* the empty list [] and the empty dict {}
Empty == <<>>

\* a key that is not in self._cache
NoEntry == [absent |-> TRUE]

\* the keys the getters build: f"games_{n}", "standings", "roster", ...
Keys == {"games_5", "games_10", "games_20", "standings", "roster",
         "performers_5", "details", "season", "history_3"}

(* ------------------------------ the cache ----------------------------- *)

\* the tuple (data, expiry_time) stored under a key
Entry(data, expiry) == [data |-> data, expiry |-> expiry]

\* `if ttl_seconds`: None and 0 are both falsy
Truthy(ttl) == ttl # Permanent /\ ttl # 0

\* _get_cached, the value it returns
GetCachedData(c, key, ttl, t) ==
    IF c[key] = NoEntry THEN None
    ELSE IF ttl = Permanent \/ t < c[key].expiry THEN Some(c[key].data)
    ELSE None

\* _get_cached, the cache it leaves: an expired entry is deleted
GetCachedCache(c, key, ttl, t) ==
    IF c[key] = NoEntry THEN c
    ELSE IF ttl = Permanent \/ t < c[key].expiry THEN c
    ELSE [c EXCEPT ![key] = NoEntry]

\* an expiry that lets an entry stored without a ttl live for a second
ExpiryNextSecond(ttl, t) == IF Truthy(ttl) THEN t + ttl ELSE t + 1

\* the expiry _set_cache computes
Expiry(ttl, t) == IF Truthy(ttl) THEN t + ttl ELSE DatetimeMax

\* a _set_cache that drops every other entry
SetCacheAlone(c, key, data, ttl, t) ==
    [k \in Keys |-> IF k = key THEN Entry(data, Expiry(ttl, t)) ELSE NoEntry]

\* _set_cache
SetCache(c, key, data, ttl, t) == [c EXCEPT ![key] = Entry(data, Expiry(ttl, t))]

\* self._cache = {} of __init__
EmptyCache == [k \in Keys |-> NoEntry]

\* a clear that spares the entries that never expire
ClearKeepsPermanent(c) ==
    [k \in Keys |-> IF c[k] # NoEntry /\ c[k].expiry = DatetimeMax THEN c[k] ELSE NoEntry]

\* self._cache.clear() of clear_cache and of fetch_all_data(force_refresh=True)
ClearCache(c) == [k \in Keys |-> NoEntry]

(* ------------------------- the external provider ---------------------- *)

\* self.team_id, another team of the league, and CURRENT_SEASON
TeamId == "LAL"
OtherTeam == "BOS"
CurrentSeason == "2025-26"

\* what an nba_api endpoint gives back: a data frame, or an exception
Response(rows) == [ok |-> TRUE, rows |-> rows]
Raises == [ok |-> FALSE, rows |-> <<>>]

Min(a, b) == IF a <= b THEN a ELSE b
Max(a, b) == IF a >= b THEN a ELSE b

\* df.head(n) and s[:n]
Take(s, n) == SubSeq(s, 1, Min(n, Len(s)))
\* s[n:]
Drop(s, n) == SubSeq(s, n + 1, Len(s))

\* sum of a sequence of integers
RECURSIVE Sum(_)
Sum(s) == IF Len(s) = 0 THEN 0 ELSE s[1] + Sum(Tail(s))

\* round(num / den, digits) as an integer count of 10^-digits, for den > 0,
\* scale = 10^digits: round half to even, as Python's round does
Round(num, den, scale) ==
    LET q == (scale * num) \div den
        r == (scale * num) % den
    IN  IF 2 * r < den THEN q
        ELSE IF 2 * r > den THEN q + 1
        ELSE IF q % 2 = 0 THEN q ELSE q + 1

\* team_games.sort_values('GAME_DATE', ascending=False)
RECURSIVE SortByDateDesc(_)
SortByDateDesc(rows) ==
    IF Len(rows) = 0 THEN <<>>
    ELSE LET rest == SortByDateDesc(SubSeq(rows, 1, Len(rows) - 1))
             g == rows[Len(rows)]
             k == Cardinality({i \in 1..Len(rest) : rest[i].GAME_DATE >= g.GAME_DATE})
         IN  SubSeq(rest, 1, k) \o <<g>> \o SubSeq(rest, k + 1, Len(rest))

\* one game dict of get_recent_games, from a row of the league game log
Game(g) ==
    [date |-> g.GAME_DATE, result |-> g.WL, team_points |-> g.PTS,
     opponent_points |-> g.PTS - g.PLUS_MINUS, plus_minus |-> g.PLUS_MINUS,
     field_goal_pct |-> g.FG_PCT]

\* a fetch of the recent games that keeps the order of the provider's log
GamesFetchUnsorted(resp, num_games) ==
    IF ~resp.ok THEN Empty
    ELSE LET team_games == SelectSeq(resp.rows, LAMBDA g : g.TEAM_ID = TeamId)
         IN  IF Len(team_games) = 0 THEN Empty
             ELSE [i \in 1..Min(num_games, Len(team_games)) |-> Game(team_games[i])]

\* fetch() of get_recent_games: [] when the provider raises or has no game of
\* the team, else the num_games most recent games of the team
GamesFetch(resp, num_games) ==
    IF ~resp.ok THEN Empty
    ELSE LET team_games == SelectSeq(resp.rows, LAMBDA g : g.TEAM_ID = TeamId)
             sorted == SortByDateDesc(team_games)
         IN  IF Len(team_games) = 0 THEN Empty
             ELSE [i \in 1..Min(num_games, Len(sorted)) |-> Game(sorted[i])]

\* fetch() of get_standings: {} when the provider raises or has no row of the
\* team.  win_pct is in thousandths, games_back in tenths.
StandingsFetch(resp) ==
    IF ~resp.ok THEN Empty
    ELSE LET team == SelectSeq(resp.rows, LAMBDA s : s.TeamID = TeamId)
         IN  IF Len(team) = 0 THEN Empty
             ELSE [league_rank |-> team[1].LeagueRank, win_pct |-> team[1].WinPCT,
                   games_back |-> team[1].ConferenceGamesBack]

\* fetch() of get_team_roster
RosterFetch(resp) ==
    IF ~resp.ok THEN Empty
    ELSE [i \in 1..Len(resp.rows) |->
            [player_id |-> resp.rows[i].PLAYER_ID, player_name |-> resp.rows[i].PLAYER,
             position |-> resp.rows[i].POSITION]]

\* fetch() of get_team_details
DetailsFetch(resp) ==
    IF ~resp.ok THEN Empty
    ELSE IF Len(resp.rows) = 0 THEN Empty
    ELSE [abbreviation |-> resp.rows[1].ABBREVIATION, arena |-> resp.rows[1].ARENA]

\* fetch() of get_season_stats
SeasonFetch(resp) ==
    IF ~resp.ok THEN Empty
    ELSE LET current == SelectSeq(resp.rows, LAMBDA s : s.YEAR = CurrentSeason)
         IN  IF Len(current) = 0 THEN Empty
             ELSE [season |-> CurrentSeason, wins |-> current[1].WINS,
                   losses |-> current[1].LOSSES, conf_rank |-> current[1].CONF_RANK]

\* fetch() of get_historical_performance
HistoryFetch(resp, num_seasons) ==
    IF ~resp.ok THEN Empty
    ELSE [i \in 1..Min(num_seasons, Len(resp.rows)) |->
            [season |-> resp.rows[i].YEAR, wins |-> resp.rows[i].WINS,
             losses |-> resp.rows[i].LOSSES, made_playoffs |-> resp.rows[i].PO_WINS > 0]]

(* ----------------------------- derivations ---------------------------- *)

\* what a derivation hands back: a value, or an exception that propagates
Returns(v) == [raised |-> FALSE, value |-> v]
Raised == [raised |-> TRUE, value |-> Empty]

\* sum(1 for g in games if g['result'] == r)
CountResult(games, r) == Cardinality({i \in 1..Len(games) : games[i].result = r})

\* [g['team_points'] for g in games]
Points(games) == [i \in 1..Len(games) |-> games[i].team_points]

\* the body of get_team_win_streak after games = self.get_recent_games(20)
WinStreakOf(games) ==
    IF Len(games) = 0 THEN [streak_type |-> "unknown", streak_length |-> 0]
    ELSE LET current == games[1].result
             streak == CountResult(games, current)
             wins_10 == CountResult(Take(games, 10), "W")
         IN  [streak_type |-> IF current = "W" THEN "winning" ELSE "losing",
              streak_length |-> streak,
              recent_record |-> [wins |-> wins_10, losses |-> 10 - wins_10]]

\* the body of analyze_performance_trends after games = self.get_recent_games(20).
\* statistics.mean raises StatisticsError on an empty sequence.  The win rates
\* are in tenths, the averages in tenths of a point.
TrendsOf(games) ==
    IF Len(games) = 0 THEN Returns(Empty)
    ELSE LET first == Drop(games, 10)
             second == Take(games, 10)
             first_wins == CountResult(first, "W")
             second_wins == CountResult(second, "W")
             s1 == Sum(Points(first))
             s2 == Sum(Points(second))
             n1 == Len(first)
             n2 == Len(second)
             faster == s2 * n1 > s1 * n2
         IN  IF n1 = 0 THEN Raised
             ELSE Returns(
                 [trend |-> IF second_wins > first_wins THEN "improving" ELSE "declining",
                  recent_win_rate |-> second_wins,
                  previous_win_rate |-> first_wins,
                  scoring_trend |->
                      [recent_avg |-> Round(s2, n2, 10),
                       previous_avg |-> Round(s1, n1, 10),
                       change |-> Round(s2 * n1 - s1 * n2, n1 * n2, 10)],
                  momentum |-> IF second_wins > first_wins /\ faster
                               THEN "positive" ELSE "negative"])

\* the body of get_performance_metrics after games = self.get_recent_games(n).
\* statistics.stdev raises StatisticsError on fewer than two points; it is the
\* sample deviation, so stdev < 8 iff n*sum(x^2) - sum(x)^2 < 64*n*(n-1).
\* win_rate is in thousandths, the averages in tenths.
MetricsOf(games) ==
    IF Len(games) = 0
    THEN Returns([win_rate |-> 0, wins |-> 0, losses |-> 0, avg_points |-> 0,
                  avg_margin |-> 0, avg_fg_pct |-> 0, consistency |-> "unknown"])
    ELSE LET n == Len(games)
             wins == CountResult(games, "W")
             points == Points(games)
             margins == [i \in 1..n |-> games[i].team_points - games[i].opponent_points]
             fg_pcts == [i \in 1..n |-> games[i].field_goal_pct]
             squares == [i \in 1..n |-> points[i] * points[i]]
         IN  IF n < 2 THEN Raised
             ELSE Returns(
                 [win_rate |-> Round(wins, n, 1000),
                  wins |-> wins,
                  losses |-> n - wins,
                  avg_points |-> Round(Sum(points), n, 10),
                  avg_margin |-> Round(Sum(margins), n, 10),
                  avg_fg_pct |-> Round(Sum(fg_pcts), n, 1),
                  consistency |->
                      IF n * Sum(squares) - Sum(points) * Sum(points) < 64 * n * (n - 1)
                      THEN "high" ELSE "moderate"])

\* a get_competitive_context whose thresholds are exclusive (rank < 6, rank < 10)
ContextOfExclusive(standings) ==
    IF standings = Empty
    THEN [league_rank |-> 15, competitive_tier |-> "unknown",
          playoff_status |-> "unknown", win_pct |-> 500, games_back |-> 0]
    ELSE LET rank == standings.league_rank
         IN  [league_rank |-> rank,
              competitive_tier |-> IF rank < 6 THEN "championship_contender"
                                   ELSE IF rank < 10 THEN "play_in_team"
                                   ELSE "rebuild_mode",
              playoff_status |-> IF rank < 6 THEN "guaranteed"
                                 ELSE IF rank < 10 THEN "likely"
                                 ELSE "unlikely",
              win_pct |-> standings.win_pct,
              games_back |-> standings.games_back]

\* the body of get_competitive_context after standings = self.get_standings().
\* win_pct is in thousandths (0.5 is 500), games_back in tenths.
ContextOf(standings) ==
    IF standings = Empty
    THEN [league_rank |-> 15, competitive_tier |-> "unknown",
          playoff_status |-> "unknown", win_pct |-> 500, games_back |-> 0]
    ELSE LET rank == standings.league_rank
         IN  [league_rank |-> rank,
              competitive_tier |-> IF rank <= 6 THEN "championship_contender"
                                   ELSE IF rank <= 10 THEN "play_in_team"
                                   ELSE "rebuild_mode",
              playoff_status |-> IF rank <= 6 THEN "guaranteed"
                                 ELSE IF rank <= 10 THEN "likely"
                                 ELSE "unlikely",
              win_pct |-> standings.win_pct,
              games_back |-> standings.games_back]

\* a clamp that only bounds the score from above
ClampAbove(score) == Min(100, score)

\* score = max(0, min(100, score))
Clamp(score) == Max(0, Min(100, score))

\* a sentiment whose thresholds are exclusive
SentimentAbove(score) ==
    IF score > 75 THEN "excellent"
    ELSE IF score > 60 THEN "positive"
    ELSE IF score > 40 THEN "neutral"
    ELSE "concerning"

\* the sentiment of a score
Sentiment(score) ==
    IF score >= 75 THEN "excellent"
    ELSE IF score >= 60 THEN "positive"
    ELSE IF score >= 40 THEN "neutral"
    ELSE "concerning"

\* a score whose streak adjustment is not capped at 20
RawScoreUncapped(trends, streak) ==
    LET rate == IF trends = Empty THEN 5 ELSE trends.recent_win_rate
        swing == streak.streak_length * 3
        push == IF trends = Empty THEN 0
                ELSE IF trends.momentum = "positive" THEN 10
                ELSE IF trends.momentum = "negative" THEN -10
                ELSE 0
    IN  50 + (rate - 5) * 6
           + (IF streak.streak_type = "winning" THEN swing ELSE -swing)
           + push

\* a score that takes the recent win rate as 0 when there are no trends
RawScoreNoDefault(trends, streak) ==
    LET rate == IF trends = Empty THEN 0 ELSE trends.recent_win_rate
        swing == Min(streak.streak_length * 3, 20)
        push == IF trends = Empty THEN 0
                ELSE IF trends.momentum = "positive" THEN 10
                ELSE IF trends.momentum = "negative" THEN -10
                ELSE 0
    IN  50 + (rate - 5) * 6
           + (IF streak.streak_type = "winning" THEN swing ELSE -swing)
           + push

\* the score before it is clamped: 50.0 + (recent_win_rate - 0.5) * 60 is
\* 50 + 6 * (tenths - 5), trends.get("recent_win_rate", 0.5) is 5 tenths
RawScore(trends, streak) ==
    LET rate == IF trends = Empty THEN 5 ELSE trends.recent_win_rate
        swing == Min(streak.streak_length * 3, 20)
        push == IF trends = Empty THEN 0
                ELSE IF trends.momentum = "positive" THEN 10
                ELSE IF trends.momentum = "negative" THEN -10
                ELSE 0
    IN  50 + (rate - 5) * 6
           + (IF streak.streak_type = "winning" THEN swing ELSE -swing)
           + push

\* the body of calculate_momentum_score after trends and streak are read
MomentumOf(trends, streak) ==
    LET score == Clamp(RawScore(trends, streak))
    IN  [score |-> score, sentiment |-> Sentiment(score),
         trend |-> IF trends = Empty THEN "stable" ELSE trends.trend]

(* ------------------------------- getters ------------------------------ *)

\* the ttl_seconds the getters pass to _fetch_or_cache
FreshTTL == 300
SessionTTL == 3600
DayTTL == 86400

\* f"games_{num_games}" for the window sizes in use
GamesKey(num_games) ==
    CASE num_games = 5 -> "games_5"
      [] num_games = 10 -> "games_10"
      [] num_games = 20 -> "games_20"

\* the endpoint, when its answer is an exception
Failure(resp, endpoint) == IF resp.ok THEN {} ELSE {endpoint}

\* what running a loader or a getter gives: the cache it leaves, the value it
\* returns, the number of provider endpoints it invoked, the endpoints that
\* raised, and whether an exception reaches the caller (never, for a getter)
Loaded(c, v, n, f) ==
    [cache |-> c, value |-> v, ncalls |-> n, failed |-> f, raised |-> FALSE]

\* _fetch_or_cache without its cache check: every call loads
FetchOrCacheAlwaysLoads(c, key, ttl, t, f) ==
    Loaded(SetCache(f.cache, key, f.value, ttl, t), f.value, f.ncalls, f.failed)

\* _fetch_or_cache, where f is what fetch_func() gives when it is run on the
\* cache that _get_cached leaves
FetchOrCache(c, key, ttl, t, f) ==
    LET cached == GetCachedData(c, key, ttl, t)
    IN  IF cached # None
        THEN Loaded(c, cached.some, 0, {})
        ELSE Loaded(SetCache(f.cache, key, f.value, ttl, t), f.value, f.ncalls, f.failed)

\* get_recent_games
GetRecentGames(c, p, t, num_games) ==
    FetchOrCache(c, GamesKey(num_games), FreshTTL, t,
        Loaded(GetCachedCache(c, GamesKey(num_games), FreshTTL, t),
               GamesFetch(p.games, num_games), 1, Failure(p.games, "games")))

\* get_standings
GetStandings(c, p, t) ==
    FetchOrCache(c, "standings", FreshTTL, t,
        Loaded(GetCachedCache(c, "standings", FreshTTL, t),
               StandingsFetch(p.standings), 1, Failure(p.standings, "standings")))

\* get_team_roster
GetTeamRoster(c, p, t) ==
    FetchOrCache(c, "roster", SessionTTL, t,
        Loaded(GetCachedCache(c, "roster", SessionTTL, t),
               RosterFetch(p.roster), 1, Failure(p.roster, "roster")))

\* sorted(performers, key=avg_points, reverse=True): a stable sort
\* a sort by average points that puts a player ahead of those with equal points
RECURSIVE SortByPointsTiesFirst(_)
SortByPointsTiesFirst(ps) ==
    IF Len(ps) = 0 THEN <<>>
    ELSE LET rest == SortByPointsTiesFirst(SubSeq(ps, 1, Len(ps) - 1))
             x == ps[Len(ps)]
             k == Cardinality({i \in 1..Len(rest) : rest[i].avg_points > x.avg_points})
         IN  SubSeq(rest, 1, k) \o <<x>> \o SubSeq(rest, k + 1, Len(rest))

RECURSIVE SortByPointsDesc(_)
SortByPointsDesc(ps) ==
    IF Len(ps) = 0 THEN <<>>
    ELSE LET rest == SortByPointsDesc(SubSeq(ps, 1, Len(ps) - 1))
             x == ps[Len(ps)]
             k == Cardinality({i \in 1..Len(rest) : rest[i].avg_points >= x.avg_points})
         IN  SubSeq(rest, 1, k) \o <<x>> \o SubSeq(rest, k + 1, Len(rest))

\* fetch() of get_top_performers, run on cache c: it reads the roster through
\* get_team_roster, asks the provider for the log of each of the first 10
\* players, and skips a player whose log raises or is empty
PerformersFetch(c, p, t, num_games) ==
    LET r == GetTeamRoster(c, p, t)
        roster == Take(r.value, 10)
        log(i) == p.playerlog[roster[i].player_id]
        recent(i) == Take(log(i).rows, num_games)
        has(i) == log(i).ok /\ Len(log(i).rows) > 0
        kept == SelectSeq([i \in 1..Len(roster) |-> i], has)
        performers ==
            [j \in 1..Len(kept) |->
                [player_name |-> roster[kept[j]].player_name,
                 position |-> roster[kept[j]].position,
                 avg_points |-> Round(Sum([x \in 1..Len(recent(kept[j])) |->
                                              recent(kept[j])[x].PTS]),
                                      Len(recent(kept[j])), 10)]]
    IN  Loaded(r.cache, Take(SortByPointsDesc(performers), 5),
               r.ncalls + Len(roster),
               r.failed \cup {"playerlog" : i \in {j \in 1..Len(roster) : ~log(j).ok}})

\* get_top_performers
GetTopPerformers(c, p, t) ==
    FetchOrCache(c, "performers_5", SessionTTL, t,
        PerformersFetch(GetCachedCache(c, "performers_5", SessionTTL, t), p, t, 5))

\* get_team_details
GetTeamDetails(c, p, t) ==
    FetchOrCache(c, "details", DayTTL, t,
        Loaded(GetCachedCache(c, "details", DayTTL, t),
               DetailsFetch(p.details), 1, Failure(p.details, "details")))

\* get_season_stats
GetSeasonStats(c, p, t) ==
    FetchOrCache(c, "season", DayTTL, t,
        Loaded(GetCachedCache(c, "season", DayTTL, t),
               SeasonFetch(p.yearly), 1, Failure(p.yearly, "yearly")))

\* get_historical_performance
GetHistoricalPerformance(c, p, t) ==
    FetchOrCache(c, "history_3", Permanent, t,
        Loaded(GetCachedCache(c, "history_3", Permanent, t),
               HistoryFetch(p.yearly, 3), 1, Failure(p.yearly, "yearly")))

\* a get_cache_stats that leaves expired entries out of its total
CacheStatsOfValid(c, t) ==
    [total_cached |-> Cardinality({k \in Keys : c[k] # NoEntry /\ t < c[k].expiry}),
     valid_entries |-> Cardinality({k \in Keys : c[k] # NoEntry /\ t < c[k].expiry})]

\* get_cache_stats
CacheStats(c, t) ==
    [total_cached |-> Cardinality({k \in Keys : c[k] # NoEntry}),
     valid_entries |-> Cardinality({k \in Keys : c[k] # NoEntry /\ t < c[k].expiry})]

(* ----------------- derivations as the caller sees them ---------------- *)

\* what a derivation gives: as Loaded, where d is Returns(v) or Raised
Derived(c, d, n, f) ==
    [cache |-> c, value |-> d.value, ncalls |-> n, failed |-> f, raised |-> d.raised]

\* get_team_win_streak
GetTeamWinStreak(c, p, t) ==
    LET g == GetRecentGames(c, p, t, 20)
    IN  Derived(g.cache, Returns(WinStreakOf(g.value)), g.ncalls, g.failed)

\* analyze_performance_trends
AnalyzePerformanceTrends(c, p, t) ==
    LET g == GetRecentGames(c, p, t, 20)
    IN  Derived(g.cache, TrendsOf(g.value), g.ncalls, g.failed)

\* get_performance_metrics, with its default num_games = 20
GetPerformanceMetrics(c, p, t) ==
    LET g == GetRecentGames(c, p, t, 20)
    IN  Derived(g.cache, MetricsOf(g.value), g.ncalls, g.failed)

\* a get_competitive_context that keeps its result in the cache, in place of
\* the standings it was derived from
GetCompetitiveContextStored(c, p, t) ==
    LET s == GetStandings(c, p, t)
    IN  Derived(SetCache(s.cache, "standings", ContextOf(s.value), FreshTTL, t),
                Returns(ContextOf(s.value)), s.ncalls, s.failed)

\* get_competitive_context
GetCompetitiveContext(c, p, t) ==
    LET s == GetStandings(c, p, t)
    IN  Derived(s.cache, Returns(ContextOf(s.value)), s.ncalls, s.failed)

\* calculate_momentum_score: the trends are read first, then the streak
CalculateMomentumScore(c, p, t) ==
    LET tr == AnalyzePerformanceTrends(c, p, t)
        st == GetTeamWinStreak(tr.cache, p, t)
    IN  IF tr.raised THEN tr
        ELSE Derived(st.cache, Returns(MomentumOf(tr.value, st.value)),
                     tr.ncalls + st.ncalls, tr.failed \cup st.failed)

\* fetch_all_data: the dict literal is evaluated in the order written, and an
\* exception of a derivation leaves the method at once
FetchAllData(c, p, t, force_refresh) ==
    LET c0 == IF force_refresh THEN ClearCache(c) ELSE c
        r1 == GetTeamDetails(c0, p, t)
        r2 == GetRecentGames(r1.cache, p, t, 10)
        r3 == GetTeamWinStreak(r2.cache, p, t)
        r4 == GetTopPerformers(r3.cache, p, t)
        r5 == GetSeasonStats(r4.cache, p, t)
        r6 == GetStandings(r5.cache, p, t)
        r7 == GetHistoricalPerformance(r6.cache, p, t)
        r8 == AnalyzePerformanceTrends(r7.cache, p, t)
        r9 == GetPerformanceMetrics(r8.cache, p, t)
        r10 == GetCompetitiveContext(r9.cache, p, t)
        r11 == CalculateMomentumScore(r10.cache, p, t)
        r12 == GetTeamRoster(r11.cache, p, t)
        n8 == r1.ncalls + r2.ncalls + r3.ncalls + r4.ncalls + r5.ncalls
              + r6.ncalls + r7.ncalls + r8.ncalls
        f8 == r1.failed \cup r2.failed \cup r3.failed \cup r4.failed \cup r5.failed
              \cup r6.failed \cup r7.failed \cup r8.failed
    IN  IF r8.raised THEN Derived(r8.cache, Raised, n8, f8)
        ELSE IF r9.raised THEN Derived(r9.cache, Raised, n8 + r9.ncalls, f8 \cup r9.failed)
        ELSE Derived(r12.cache,
                 Returns(
                     [team_info |-> r1.value,
                      recent_performance |->
                          [recent_games |-> r2.value,
                           win_streak |-> r3.value,
                           top_performers |-> r4.value],
                      season_data |->
                          [current_season |-> r5.value,
                           standings |-> r6.value,
                           historical |-> r7.value],
                      trends |-> r8.value,
                      metrics |-> r9.value,
                      competitive_context |-> r10.value,
                      momentum |-> r11.value,
                      roster |-> r12.value]),
                 n8 + r9.ncalls + r10.ncalls + r11.ncalls + r12.ncalls,
                 f8 \cup r9.failed \cup r10.failed \cup r11.failed \cup r12.failed)

(* ------------------------------- state -------------------------------- *)

VARIABLES
    cache,      \* self._cache: key -> Entry or NoEntry
    now,        \* datetime.now()
    provider,   \* what each nba_api endpoint answers at the moment
    hist,       \* the last two completed calls, oldest first
    made,       \* the number of calls made so far
    changed,    \* the number of changes of the provider's data so far
    advanced,   \* the number of times the caller let time pass
    threads     \* each concurrent caller's position in _fetch_or_cache

vars == <<cache, now, provider, hist, made, changed, advanced, threads>>

(* ------------------------- records of calls --------------------------- *)

\* one completed call: what was called, when, and what came back.  expiry is
\* the expiry of the entry the call leaves under its key (0 when none).
Op(name, key, ttl, at, value, c) ==
    [op |-> name, key |-> key, ttl |-> ttl, at |-> at, value |-> value,
     ncalls |-> 0, failed |-> {}, raised |-> FALSE,
     expiry |-> IF key \in Keys /\ c[key] # NoEntry THEN c[key].expiry ELSE 0]

\* the record of a getter or derivation call with outcome r
OpOf(name, key, ttl, at, r) ==
    [Op(name, key, ttl, at, r.value, r.cache)
        EXCEPT !.ncalls = r.ncalls, !.failed = r.failed, !.raised = r.raised]

NoOp == Op("none", "none", Permanent, 0, Empty, EmptyCache)

Record(h, o) == <<h[2], o>>

(* --------------------- the provider's possible data ------------------- *)

PlayerIds == {"p1", "p2", "p3"}

\* a row of LeagueGameLog; FG_PCT is in thousandths
GameRow(team, date, wl, pts) ==
    [TEAM_ID |-> team, GAME_DATE |-> date, WL |-> wl, PTS |-> pts,
     PLUS_MINUS |-> IF wl = "W" THEN 5 ELSE -5, FG_PCT |-> 450]

\* the team's games with the given results, most recent first; the ten most
\* recent score ptsNew points each, the older ones ptsOld
LogOf(results, ptsNew, ptsOld) ==
    [i \in 1..Len(results) |->
        GameRow(TeamId, Len(results) + 1 - i, results[i],
                IF i <= 10 THEN ptsNew ELSE ptsOld)]

\* the same games oldest first, after a game of another team
Unordered(log) ==
    <<GameRow(OtherTeam, 1, "W", 99)>> \o [i \in 1..Len(log) |-> log[Len(log) + 1 - i]]

Log5 == LogOf(<<"W", "W", "W", "L", "W">>, 100, 100)
Log12 == LogOf(<<"W", "W", "W", "L", "W", "W", "L", "W", "L", "L", "W", "L">>, 110, 100)

StandingsRow(team, rank) ==
    [TeamID |-> team, LeagueRank |-> rank, WinPCT |-> 600, ConferenceGamesBack |-> 25]

RosterRow(id) == [PLAYER_ID |-> id, PLAYER |-> id, POSITION |-> "G"]

LogRow(pts) == [PTS |-> pts, AST |-> 5, REB |-> 5]

YearRow(year, wins) ==
    [YEAR |-> year, WINS |-> wins, LOSSES |-> 82 - wins, CONF_RANK |-> 4, PO_WINS |-> wins - 45]

GamesResponses ==
    {Raises, Response(<<>>), Response(Log5), Response(Unordered(Log12))}
StandingsResponses ==
    {Raises, Response(<<StandingsRow(OtherTeam, 1)>>),
     Response(<<StandingsRow(OtherTeam, 1), StandingsRow(TeamId, 3)>>),
     Response(<<StandingsRow(TeamId, 8)>>)}
RosterResponses ==
    {Raises, Response(<<RosterRow("p1"), RosterRow("p2")>>),
     Response(<<RosterRow("p1"), RosterRow("p2"), RosterRow("p3")>>)}
PlayerLogResponses ==
    {Raises, Response(<<>>), Response(<<LogRow(20), LogRow(25)>>), Response(<<LogRow(30)>>)}
DetailsResponses ==
    {Raises, Response(<<>>), Response(<<[ABBREVIATION |-> "LAL", ARENA |-> "Crypto.com Arena"]>>)}
YearlyResponses ==
    {Raises, Response(<<YearRow("2024-25", 50)>>),
     Response(<<YearRow("2024-25", 50), YearRow(CurrentSeason, 40)>>)}

\* a provider that answers every endpoint
Healthy ==
    [games |-> Response(Unordered(Log12)),
     standings |-> Response(<<StandingsRow(OtherTeam, 1), StandingsRow(TeamId, 3)>>),
     roster |-> Response(<<RosterRow("p1"), RosterRow("p2"), RosterRow("p3")>>),
     playerlog |-> [id \in PlayerIds |->
                       IF id = "p2" THEN Response(<<LogRow(30)>>)
                       ELSE Response(<<LogRow(20), LogRow(25)>>)],
     details |-> Response(<<[ABBREVIATION |-> "LAL", ARENA |-> "Crypto.com Arena"]>>),
     yearly |-> Response(<<YearRow("2024-25", 50), YearRow(CurrentSeason, 40)>>)]

\* the clock values the sequential caller acts at, besides 0
TimePoints == {FreshTTL - 1, FreshTTL, SessionTTL, DayTTL}

(* ------------------------- the sequential caller ---------------------- *)

\* the concurrent callers, and a caller that is not inside a getter
Threads == 1..NThreads
IdleThread ==
    [pc |-> "idle", key |-> "none", ttl |-> Permanent, entry |-> NoEntry,
     data |-> Empty, cleared |-> FALSE, raised |-> FALSE]

\* a DataTool just constructed, in front of a provider that answers p
Start(p) ==
    /\ cache = EmptyCache
    /\ now = 0
    /\ provider = p
    /\ hist = <<NoOp, NoOp>>
    /\ made = 0
    /\ changed = 0
    /\ advanced = 0
    /\ threads = [t \in Threads |-> IdleThread]

Init == Start(Healthy)

\* a call returns with outcome r
Return(name, key, ttl, r) ==
    /\ made < MaxCalls
    /\ made' = made + 1
    /\ cache' = r.cache
    /\ hist' = Record(hist, OpOf(name, key, ttl, now, r))
    /\ UNCHANGED <<now, provider, changed, advanced, threads>>

CallGetRecentGames ==
    \E n \in {10, 20} :
        Return("get_recent_games", GamesKey(n), FreshTTL,
               GetRecentGames(cache, provider, now, n))

CallGetStandings ==
    Return("get_standings", "standings", FreshTTL, GetStandings(cache, provider, now))

CallGetTeamRoster ==
    Return("get_team_roster", "roster", SessionTTL, GetTeamRoster(cache, provider, now))

CallGetTopPerformers ==
    Return("get_top_performers", "performers_5", SessionTTL,
           GetTopPerformers(cache, provider, now))

CallGetTeamDetails ==
    Return("get_team_details", "details", DayTTL, GetTeamDetails(cache, provider, now))

CallGetSeasonStats ==
    Return("get_season_stats", "season", DayTTL, GetSeasonStats(cache, provider, now))

CallGetHistoricalPerformance ==
    Return("get_historical_performance", "history_3", Permanent,
           GetHistoricalPerformance(cache, provider, now))

CallGetTeamWinStreak ==
    Return("get_team_win_streak", "games_20", FreshTTL,
           GetTeamWinStreak(cache, provider, now))

CallAnalyzePerformanceTrends ==
    Return("analyze_performance_trends", "games_20", FreshTTL,
           AnalyzePerformanceTrends(cache, provider, now))

CallGetPerformanceMetrics ==
    Return("get_performance_metrics", "games_20", FreshTTL,
           GetPerformanceMetrics(cache, provider, now))

CallGetCompetitiveContext ==
    Return("get_competitive_context", "standings", FreshTTL,
           GetCompetitiveContext(cache, provider, now))

CallCalculateMomentumScore ==
    Return("calculate_momentum_score", "games_20", FreshTTL,
           CalculateMomentumScore(cache, provider, now))

CallFetchAllData ==
    \E force_refresh \in BOOLEAN :
        Return(IF force_refresh THEN "fetch_all_data(True)" ELSE "fetch_all_data",
               "all", Permanent, FetchAllData(cache, provider, now, force_refresh))

\* clear_cache; the record keeps the number of entries it removed
CallClearCache ==
    Return("clear_cache", "all", Permanent,
           Loaded(ClearCache(cache), CacheStats(cache, now).total_cached, 0, {}))

\* get_cache_stats
CallGetCacheStats ==
    Return("get_cache_stats", "all", Permanent,
           Loaded(cache, CacheStats(cache, now), 0, {}))

\* one endpoint of the provider starts to answer something else
ProviderChange ==
    /\ changed < MaxChanges
    /\ changed' = changed + 1
    /\ \/ \E r \in GamesResponses : provider' = [provider EXCEPT !.games = r]
       \/ \E r \in StandingsResponses : provider' = [provider EXCEPT !.standings = r]
       \/ \E r \in RosterResponses : provider' = [provider EXCEPT !.roster = r]
       \/ \E id \in PlayerIds, r \in PlayerLogResponses :
              provider' = [provider EXCEPT !.playerlog[id] = r]
       \/ \E r \in DetailsResponses : provider' = [provider EXCEPT !.details = r]
       \/ \E r \in YearlyResponses : provider' = [provider EXCEPT !.yearly = r]
    /\ provider' # provider
    /\ UNCHANGED <<cache, now, hist, made, advanced, threads>>

\* time passes between two calls
Advance ==
    /\ advanced < MaxAdvances
    /\ advanced' = advanced + 1
    /\ \E t \in TimePoints : t > now /\ now' = t
    /\ UNCHANGED <<cache, provider, hist, made, changed, threads>>

\* the world around the caller: the provider's data and the clock
Environment == ProviderChange \/ Advance

\* a caller of the getters and of the cache management methods
Next ==
    \/ CallGetRecentGames
    \/ CallGetStandings
    \/ CallGetTeamRoster
    \/ CallGetTopPerformers
    \/ CallGetTeamDetails
    \/ CallGetSeasonStats
    \/ CallGetHistoricalPerformance
    \/ CallClearCache
    \/ CallGetCacheStats
    \/ Environment

Spec == Init /\ [][Next]_vars

\* a caller of the bulk fetch
NextReport ==
    \/ CallFetchAllData
    \/ CallGetStandings
    \/ CallClearCache
    \/ Environment

SpecReport == Init /\ [][NextReport]_vars

(* ------------------ the cache primitives on their own ----------------- *)

\* the TTL values and data the primitives are exercised with
TTLValues == (0..MaxTTL) \cup {Permanent}
TTLKeys == {"standings", "roster"}
TTLData == {[league_rank |-> 3], [league_rank |-> 12]}

\* a call _set_cache(key, data, ttl)
CallSetCache ==
    \E key \in TTLKeys, data \in TTLData, ttl \in TTLValues :
        /\ cache' = SetCache(cache, key, data, ttl, now)
        /\ hist' = Record(hist, Op("_set_cache", key, ttl, now, data, cache'))
        /\ UNCHANGED <<now, provider, made, changed, advanced, threads>>

\* a call _get_cached(key, ttl)
CallGetCached ==
    \E key \in TTLKeys, ttl \in TTLValues :
        /\ cache' = GetCachedCache(cache, key, ttl, now)
        /\ hist' = Record(hist, Op("_get_cached", key, ttl, now,
                                   GetCachedData(cache, key, ttl, now), cache'))
        /\ UNCHANGED <<now, provider, made, changed, advanced, threads>>

\* datetime.now() moves on by a second
Tick ==
    /\ now < MaxTime
    /\ now' = now + 1
    /\ UNCHANGED <<cache, provider, hist, made, changed, advanced, threads>>

NextTTL == CallSetCache \/ CallGetCached \/ Tick

SpecTTL == Init /\ [][NextTTL]_vars

(* ----------------------- the derivations' caller ---------------------- *)

\* n results, w of them wins: the wins first, or the losses first
Results(n, w, winsFirst) ==
    [i \in 1..n |-> IF winsFirst
                    THEN (IF i <= w THEN "W" ELSE "L")
                    ELSE (IF i <= n - w THEN "L" ELSE "W")]

\* the game logs tried: every sequence of at most MaxShort results, and logs of
\* ten recent games with any number of wins followed by 1..MaxOlder older
\* games, the recent games scoring more or less than the older ones
GameLogs ==
    {LogOf(r, 100, 100) : r \in UNION {[1..n -> {"W", "L"}] : n \in 0..MaxShort}}
    \cup
    {LogOf(Results(10, w2, f[1]) \o Results(n1, w1, f[1]), f[2], 210 - f[2]) :
        w2 \in 0..10, n1 \in 1..MaxOlder, w1 \in 0..MaxOlder,
        f \in BOOLEAN \X {100, 110}}

InitDerive == \E log \in GameLogs : Start([Healthy EXCEPT !.games = Response(log)])

\* the team plays one more game: the league game log gets a row
GamePlayed ==
    /\ changed < MaxChanges
    /\ changed' = changed + 1
    /\ provider.games.ok
    /\ \E wl \in {"W", "L"} :
           provider' = [provider EXCEPT !.games =
               Response(<<GameRow(TeamId, Len(provider.games.rows) + 1, wl, 105)>>
                        \o provider.games.rows)]
    /\ UNCHANGED <<cache, now, hist, made, advanced, threads>>

\* a caller of the derivations over the recent games
NextDerive ==
    \/ CallGetTeamWinStreak
    \/ CallAnalyzePerformanceTrends
    \/ CallGetPerformanceMetrics
    \/ CallCalculateMomentumScore
    \/ CallClearCache
    \/ GamePlayed

SpecDerive == InitDerive /\ [][NextDerive]_vars

\* the standings with the team at rank r
StandingsAt(r) == Response(<<StandingsRow(OtherTeam, r + 1), StandingsRow(TeamId, r)>>)

InitContext == \E r \in 1..MaxRank : Start([Healthy EXCEPT !.standings = StandingsAt(r)])

\* the team moves one place in the standings
StandingsMove ==
    /\ changed < MaxChanges
    /\ changed' = changed + 1
    /\ \E r \in 1..MaxRank :
           /\ StandingsFetch(provider.standings) # Empty
           /\ r - StandingsFetch(provider.standings).league_rank \in {-1, 1}
           /\ provider' = [provider EXCEPT !.standings = StandingsAt(r)]
    /\ UNCHANGED <<cache, now, hist, made, advanced, threads>>

\* a caller of the competitive context
NextContext ==
    \/ CallGetCompetitiveContext
    \/ CallGetStandings
    \/ CallClearCache
    \/ StandingsMove
    \/ Advance

SpecContext == InitContext /\ [][NextContext]_vars

(* ------------------------- concurrent callers ------------------------- *)

\* the getters the concurrent callers use: key and ttl_seconds
ConcGetters == {[key |-> "standings", ttl |-> FreshTTL], [key |-> "details", ttl |-> DayTTL]}

\* fetch_func() of the getter of a key
FetchFor(key, p) ==
    IF key = "standings" THEN StandingsFetch(p.standings) ELSE DetailsFetch(p.details)

\* thread t moves on, the rest of the state but the cache stays
Step(t, th) ==
    /\ threads' = [threads EXCEPT ![t] = th]
    /\ UNCHANGED <<now, provider, hist, made, changed, advanced>>

\* thread t enters a getter, which calls _fetch_or_cache
Begin(t) ==
    /\ threads[t].pc \in {"idle", "done"}
    /\ \E g \in ConcGetters :
           Step(t, [IdleThread EXCEPT !.pc = "contains", !.key = g.key, !.ttl = g.ttl])
    /\ UNCHANGED cache

\* _get_cached: if key in self._cache
Contains(t) ==
    /\ threads[t].pc = "contains"
    /\ Step(t, [threads[t] EXCEPT !.pc = IF cache[threads[t].key] = NoEntry
                                         THEN "fetch" ELSE "read"])
    /\ UNCHANGED cache

\* _get_cached: data, expiry = self._cache[key]; KeyError when the key has
\* gone since the test
Read(t) ==
    /\ threads[t].pc = "read"
    /\ Step(t, IF cache[threads[t].key] = NoEntry
               THEN [threads[t] EXCEPT !.pc = "done", !.raised = TRUE]
               ELSE [threads[t] EXCEPT !.pc = "judge", !.entry = cache[threads[t].key]])
    /\ UNCHANGED cache

\* _get_cached: ttl_seconds is None or datetime.now() < expiry, on the entry read
Judge(t) ==
    /\ threads[t].pc = "judge"
    /\ Step(t, IF threads[t].ttl = Permanent \/ now < threads[t].entry.expiry
               THEN [threads[t] EXCEPT !.pc = "done", !.data = threads[t].entry.data]
               ELSE [threads[t] EXCEPT !.pc = "delete"])
    /\ UNCHANGED cache

\* _get_cached: del self._cache[key]; KeyError when the key has gone
Delete(t) ==
    /\ threads[t].pc = "delete"
    /\ IF cache[threads[t].key] = NoEntry
       THEN /\ Step(t, [threads[t] EXCEPT !.pc = "done", !.raised = TRUE])
            /\ UNCHANGED cache
       ELSE /\ Step(t, [threads[t] EXCEPT !.pc = "fetch"])
            /\ cache' = [cache EXCEPT ![threads[t].key] = NoEntry]

\* _fetch_or_cache: data = fetch_func()
Fetch(t) ==
    /\ threads[t].pc = "fetch"
    /\ Step(t, [threads[t] EXCEPT !.pc = "store",
                                  !.data = FetchFor(threads[t].key, provider)])
    /\ UNCHANGED cache

\* _fetch_or_cache: self._set_cache(cache_key, data, ttl_seconds); return data
Store(t) ==
    /\ threads[t].pc = "store"
    /\ cache' = SetCache(cache, threads[t].key, threads[t].data, threads[t].ttl, now)
    /\ Step(t, [threads[t] EXCEPT !.pc = "done"])

\* clear_cache by another caller; a thread whose loader has returned and whose
\* result is not stored yet has seen a clear during its load
ConcClear ==
    /\ cache' = ClearCache(cache)
    /\ threads' = [t \in Threads |->
                      IF threads[t].pc = "store"
                      THEN [threads[t] EXCEPT !.cleared = TRUE] ELSE threads[t]]
    /\ <<cache', threads'>> # <<cache, threads>>
    /\ UNCHANGED <<now, provider, hist, made, changed, advanced>>

NextConc ==
    \/ \E t \in Threads :
           \/ Begin(t)
           \/ Contains(t)
           \/ Read(t)
           \/ Judge(t)
           \/ Delete(t)
           \/ Fetch(t)
           \/ Store(t)
    \/ ConcClear
    \/ Environment

SpecConc == Init /\ [][NextConc]_vars

(* ------------------- a session over the derivations ------------------- *)

\* a caller of the five derivations, while the team plays, moves in the
\* standings, and the clock moves
NextSession ==
    \/ CallGetTeamWinStreak
    \/ CallAnalyzePerformanceTrends
    \/ CallGetPerformanceMetrics
    \/ CallGetCompetitiveContext
    \/ CallCalculateMomentumScore
    \/ CallClearCache
    \/ GamePlayed
    \/ StandingsMove
    \/ Advance

SpecSession == Init /\ [][NextSession]_vars

(* ---------------------- the top performers' caller -------------------- *)

\* a provider whose roster has n players, numbered in roster order, the game
\* log of player i being pat[i] with period LogPeriod
RosterOf(n, pat) ==
    [Healthy EXCEPT
        !.roster = Response([i \in 1..n |-> RosterRow(i)]),
        !.playerlog = [i \in 1..MaxRoster |-> pat[((i - 1) % LogPeriod) + 1]]]

InitPerformers ==
    \E n \in 0..MaxRoster, pat \in [1..LogPeriod -> PlayerLogResponses] :
        Start(RosterOf(n, pat))

\* a caller of the top performers and the roster
NextPerformers ==
    \/ CallGetTopPerformers
    \/ CallGetTeamRoster
    \/ CallClearCache

SpecPerformers == InitPerformers /\ [][NextPerformers]_vars

(* ----------------------- the recent games' caller --------------------- *)

\* the games of the team in the order given: order[i] is the date of the i-th
\* row of the log
TeamRows(order) ==
    [i \in DOMAIN order |->
        GameRow(TeamId, order[i], IF order[i] % 2 = 0 THEN "W" ELSE "L", 100 + order[i])]

\* the season logs tried: up to MaxSeason games of the team in every order of
\* their dates, alone or among games of another team
SeasonLogs ==
    UNION {
        {TeamRows(order),
         <<GameRow(OtherTeam, 2, "W", 99)>> \o TeamRows(order)
            \o <<GameRow(OtherTeam, 1, "L", 98)>>}
        : order \in UNION {Permutations(1..k) : k \in 0..MaxSeason}}

InitGames == \E log \in SeasonLogs : Start([Healthy EXCEPT !.games = Response(log)])

\* get_recent_games(5)
CallGetRecentGamesOf5 ==
    Return("get_recent_games", GamesKey(5), FreshTTL, GetRecentGames(cache, provider, now, 5))

\* a caller of the recent games
NextGames ==
    \/ CallGetRecentGames
    \/ CallGetRecentGamesOf5

SpecGames == InitGames /\ [][NextGames]_vars

(* ------------------- a caller that keeps what it read ------------------ *)

\* s reversed: list.reverse()
Reverse(s) == [i \in 1..Len(s) |-> s[Len(s) + 1 - i]]

\* the caller changes, in place, the non-empty list the last getter call handed
\* it: it reverses it or cuts it to its first element.  _get_cached and
\* _fetch_or_cache return the object the entry holds, so the list the caller
\* changes is the list in the cache.
CallerChanges ==
    /\ made < MaxCalls
    /\ made' = made + 1
    /\ hist[2].op \in {"get_recent_games", "get_team_roster"}
    /\ cache[hist[2].key] # NoEntry
    /\ Len(cache[hist[2].key].data) > 1
    /\ \E changed_list \in {Reverse(cache[hist[2].key].data),
                            Take(cache[hist[2].key].data, 1)} :
           /\ cache' = [cache EXCEPT ![hist[2].key].data = changed_list]
           /\ hist' = Record(hist, Op("caller_changes", hist[2].key, hist[2].ttl, now,
                                      changed_list, cache'))
    /\ UNCHANGED <<now, provider, changed, advanced, threads>>

\* a caller of two getters that changes the lists it is handed
NextAlias ==
    \/ CallGetRecentGames
    \/ CallGetTeamRoster
    \/ CallerChanges
    \/ CallClearCache
    \/ Advance

SpecAlias == Init /\ [][NextAlias]_vars

(* ------------------ the momentum score, read by read ------------------ *)

\* calculate_momentum_score up to the return of analyze_performance_trends:
\* the caller keeps the trends, and the model keeps the games entry they were
\* derived from.  An exception of the trends ends the call.
MomentumTrends ==
    /\ made < MaxCalls
    /\ threads[1].pc = "idle"
    /\ LET tr == AnalyzePerformanceTrends(cache, provider, now)
       IN  /\ cache' = tr.cache
           /\ IF tr.raised
              THEN /\ made' = made + 1
                   /\ hist' = Record(hist, OpOf("calculate_momentum_score", "games_20",
                                                FreshTTL, now, tr))
                   /\ UNCHANGED threads
              ELSE /\ threads' = [threads EXCEPT ![1] =
                          [IdleThread EXCEPT
                              !.pc = "streak", !.key = "games_20", !.ttl = FreshTTL,
                              !.entry = tr.cache["games_20"],
                              !.data = [trends |-> tr.value, ncalls |-> tr.ncalls,
                                        failed |-> tr.failed]]]
                   /\ UNCHANGED <<hist, made>>
    /\ UNCHANGED <<now, provider, changed, advanced>>

\* calculate_momentum_score from the call of get_team_win_streak to its return
MomentumStreak ==
    /\ threads[1].pc = "streak"
    /\ LET st == GetTeamWinStreak(cache, provider, now)
           tr == threads[1].data
       IN  /\ cache' = st.cache
           /\ hist' = Record(hist,
                  OpOf("calculate_momentum_score", "games_20", FreshTTL, now,
                       Derived(st.cache, Returns(MomentumOf(tr.trends, st.value)),
                               tr.ncalls + st.ncalls, tr.failed \cup st.failed)))
    /\ made' = made + 1
    /\ threads' = [threads EXCEPT ![1] = IdleThread]
    /\ UNCHANGED <<now, provider, changed, advanced>>

\* the streak is read on its own, by a caller that is not inside a momentum call
StreakBetweenCalls ==
    /\ threads[1].pc = "idle"
    /\ CallGetTeamWinStreak

\* a caller of the momentum score, while the team plays, the clock moves and
\* the cache is cleared by another user of the tool
NextMomentum ==
    \/ MomentumTrends
    \/ MomentumStreak
    \/ StreakBetweenCalls
    \/ CallClearCache
    \/ GamePlayed
    \/ Advance

\* the tool in front of a season of twelve games, or of five
InitMomentum ==
    \E log \in {Log5, Unordered(Log12)} : Start([Healthy EXCEPT !.games = Response(log)])

SpecMomentum == InitMomentum /\ [][NextMomentum]_vars

(* --------------------- a caller during an outage ---------------------- *)

\* a season log that has no game of the team
NoTeamGame == Response(<<GameRow(OtherTeam, 1, "W", 99)>>)

\* what the game log and the standings may answer: an exception, nothing,
\* nothing about the team, or the team's data
OutageGames == GamesResponses \cup {NoTeamGame}
OutageStandings == StandingsResponses

InitOutage ==
    \E g \in OutageGames, s \in OutageStandings :
        Start([Healthy EXCEPT !.games = g, !.standings = s])

\* the game log or the standings start to answer something else
EndpointChange ==
    /\ changed < MaxChanges
    /\ changed' = changed + 1
    /\ \/ \E r \in OutageGames : provider' = [provider EXCEPT !.games = r]
       \/ \E r \in OutageStandings : provider' = [provider EXCEPT !.standings = r]
    /\ provider' # provider
    /\ UNCHANGED <<cache, now, hist, made, advanced, threads>>

\* a caller of the momentum score and the competitive context
NextOutage ==
    \/ CallCalculateMomentumScore
    \/ CallGetCompetitiveContext
    \/ CallClearCache
    \/ EndpointChange
    \/ Advance

SpecOutage == InitOutage /\ [][NextOutage]_vars

(* ------------------- a caller that refreshes reports ------------------ *)

\* the yearly statistics start to answer something else
YearlyChange ==
    /\ changed < MaxChanges
    /\ changed' = changed + 1
    /\ \E r \in YearlyResponses : provider' = [provider EXCEPT !.yearly = r]
    /\ provider' # provider
    /\ UNCHANGED <<cache, now, hist, made, advanced, threads>>

\* a caller of the bulk fetch, forced or not, and of the standings, while the
\* team moves in the standings, the yearly statistics change and the clock
\* moves
NextRefresh ==
    \/ CallFetchAllData
    \/ CallGetStandings
    \/ StandingsMove
    \/ YearlyChange
    \/ Advance

SpecRefresh == Init /\ [][NextRefresh]_vars

(* ------------------------------- claims ------------------------------- *)

\* the getters backed by the cache
Getters ==
    {"get_recent_games", "get_standings", "get_team_roster", "get_top_performers",
     "get_team_details", "get_season_stats", "get_historical_performance"}

\* the last two calls were the same getter with the same parameters
SameGetterTwice ==
    /\ hist[1].op \in Getters
    /\ hist[2].op = hist[1].op
    /\ hist[2].key = hist[1].key

\* C2: when the load for a key fails (the provider raises), the failure reaches
\* the caller, no entry is stored for the key, and the next call for the key
\* invokes the loader again.
C2_FailurePropagates ==
    /\ (hist[2].op \in Getters /\ hist[2].failed # {})
       => (hist[2].raised /\ cache[hist[2].key] = NoEntry)
    /\ (SameGetterTwice /\ hist[1].failed # {}) => hist[2].ncalls > 0

\* C3: an entry stored at time 0 with FixedTTL(T) is returned unchanged by a
\* get at any time t < T and is reported absent by a get at any time t >= T.
C3_TTLCorrect ==
    (/\ hist[1].op = "_set_cache"
     /\ hist[1].at = 0
     /\ hist[1].ttl # Permanent
     /\ hist[2].op = "_get_cached"
     /\ hist[2].key = hist[1].key
     /\ hist[2].ttl = hist[1].ttl)
    => IF hist[2].at < hist[1].ttl
       THEN hist[2].value = Some(hist[1].value)
       ELSE hist[2].value = None

\* the sections a report names as failed: the dict fetch_all_data builds has
\* the keys of its data sections and no key that names failed sections
FailedSections(report) ==
    IF "failed_sections" \in DOMAIN report THEN report.failed_sections ELSE {}

\* C8: if the standings fetcher fails while the games and roster fetchers
\* succeed, fetch_all_data still returns a report with populated games and
\* roster sections and the degenerate competitive context, and the report
\* identifies standings as a failed section.
C8_PartialFailureFlagged ==
    (/\ hist[2].op \in {"fetch_all_data", "fetch_all_data(True)"}
     /\ hist[2].ncalls > 0
     /\ hist[2].failed = {"standings"})
    => /\ ~hist[2].raised
       /\ hist[2].value.recent_performance.recent_games # Empty
       /\ hist[2].value.roster # Empty
       /\ hist[2].value.competitive_context = ContextOf(Empty)
       /\ "standings" \in FailedSections(hist[2].value)

\* C5: a second call of a getter with the same parameters, made while the entry
\* the first call left is still within its TTL, returns data equal to the first
\* call's and does not invoke the provider.
C5_RepeatServedFromCache ==
    (SameGetterTwice /\ hist[2].at < hist[1].expiry)
    => (hist[2].value = hist[1].value /\ hist[2].ncalls = 0)

\* C5 happens: standings are read, time passes within the TTL and the provider's
\* standings change, and standings are read again
C5_Witness ==
    /\ SameGetterTwice
    /\ hist[1].op = "get_standings"
    /\ hist[1].ncalls = 1
    /\ hist[1].at < hist[2].at
    /\ hist[2].at < hist[1].expiry
    /\ StandingsFetch(provider.standings) # hist[2].value

\* C6: after clear_cache the cache holds no entry (stats total 0 and valid 0),
\* and the next getter call reloads from the provider and leaves an entry for
\* its key.
C6_ClearThenReload ==
    /\ hist[2].op = "clear_cache"
       => CacheStats(cache, now) = [total_cached |-> 0, valid_entries |-> 0]
    /\ (hist[1].op = "clear_cache" /\ hist[2].op \in Getters)
       => (hist[2].ncalls > 0 /\ cache[hist[2].key] # NoEntry)

\* C6 happens: a cache that held entries is cleared, and a getter is called
C6_Witness ==
    /\ hist[1].op = "clear_cache"
    /\ hist[1].value > 0
    /\ hist[2].op \in Getters
    /\ hist[2].ncalls > 0

\* C1: among callers that are inside _fetch_or_cache for the same key at the
\* same time, with no clear in between, at most one has invoked the loader for
\* the miss: no two of them hold a loaded result that is not stored yet.
C1_SingleFlight ==
    \A t, u \in Threads :
        (/\ t # u
         /\ threads[t].key = threads[u].key
         /\ ~threads[t].cleared /\ ~threads[u].cleared
         /\ threads[t].pc = "store")
        => threads[u].pc # "store"

\* C4: when clear_cache has run while the load of a thread was in flight, the
\* result of the load is discarded when the load completes: the store of that
\* thread leaves the cache as it is.
C4_EpochSafety ==
    [][\A t \in Threads : (threads[t].cleared /\ Store(t)) => cache' = cache]_vars

\* the number of consecutive games, from the most recent one, whose result is r
RECURSIVE LeadingRun(_, _)
LeadingRun(games, r) ==
    IF Len(games) = 0 \/ games[1].result # r THEN 0
    ELSE 1 + LeadingRun(Tail(games), r)

\* C7: for a non-empty list of recent games, get_team_win_streak reports as
\* streak length the number of consecutive games, from the most recent one,
\* whose result equals the most recent game's result, and as type winning or
\* losing after that result.
C7_StreakIsLeadingRun ==
    (/\ hist[2].op = "get_team_win_streak"
     /\ cache["games_20"] # NoEntry
     /\ cache["games_20"].data # Empty)
    => LET games == cache["games_20"].data
       IN  /\ hist[2].value.streak_type
                 = (IF games[1].result = "W" THEN "winning" ELSE "losing")
           /\ hist[2].value.streak_length = LeadingRun(games, games[1].result)

\* C9: the score calculate_momentum_score returns lies in [0, 100], for every
\* recent win rate, streak type and length, and momentum (positive, negative,
\* or absent).
C9_MomentumInRange ==
    (hist[2].op = "calculate_momentum_score" /\ ~hist[2].raised)
    => hist[2].value.score \in 0..100

\* C9 happens: a score is returned for games whose unclamped score is above 100
C9_Witness ==
    /\ hist[2].op = "calculate_momentum_score"
    /\ ~hist[2].raised
    /\ cache["games_20"] # NoEntry
    /\ RawScore(TrendsOf(cache["games_20"].data).value,
                WinStreakOf(cache["games_20"].data)) > 100
    /\ hist[2].value.score = 100

\* the tier and playoff status the context gives
TierOf(ctx) == <<ctx.competitive_tier, ctx.playoff_status>>

\* C10: for a league rank present in the standings, get_competitive_context
\* gives championship_contender / guaranteed for rank <= 6, play_in_team /
\* likely for 7 <= rank <= 10, and rebuild_mode / unlikely for rank >= 11.
C10_TierBoundaries ==
    (/\ hist[2].op = "get_competitive_context"
     /\ cache["standings"] # NoEntry
     /\ cache["standings"].data # Empty)
    => LET rank == cache["standings"].data.league_rank
           ctx == hist[2].value
       IN  /\ ctx.league_rank = rank
           /\ rank <= 6 => TierOf(ctx) = <<"championship_contender", "guaranteed">>
           /\ (7 <= rank /\ rank <= 10) => TierOf(ctx) = <<"play_in_team", "likely">>
           /\ rank >= 11 => TierOf(ctx) = <<"rebuild_mode", "unlikely">>

\* C10 happens: the context is read with the team at rank 10 and, after the team
\* has moved a place and the standings entry has expired, at rank 11
C10_Witness ==
    /\ hist[1].op = "get_competitive_context"
    /\ hist[1].value.league_rank = 10
    /\ TierOf(hist[1].value) = <<"play_in_team", "likely">>
    /\ hist[2].op = "get_competitive_context"
    /\ hist[2].ncalls = 1
    /\ hist[2].value.league_rank = 11
    /\ TierOf(hist[2].value) = <<"rebuild_mode", "unlikely">>

\* the derivations over the cached data
Derivations ==
    {"get_team_win_streak", "analyze_performance_trends", "get_performance_metrics",
     "get_competitive_context", "calculate_momentum_score"}

\* C11: a derivation called twice in a row, the second time while the entry it
\* reads is still within its TTL (so that nothing mutates the cache between or
\* during the calls), gives the same outcome both times, without a provider call.
C11_IdempotentDerivation ==
    (/\ hist[1].op \in Derivations
     /\ hist[2].op = hist[1].op
     /\ hist[2].at < hist[1].expiry)
    => /\ hist[2].raised = hist[1].raised
       /\ hist[2].value = hist[1].value
       /\ hist[2].ncalls = 0

\* C11 happens: the momentum score is computed twice, the clock and the
\* provider's games having moved in between
C11_Witness ==
    /\ hist[1].op = "calculate_momentum_score"
    /\ hist[2].op = "calculate_momentum_score"
    /\ ~hist[2].raised
    /\ hist[1].at < hist[2].at
    /\ hist[2].at < hist[1].expiry
    /\ GamesFetch(provider.games, 20) # cache["games_20"].data

\* the keys that have a stored entry, and those whose entry is unexpired at t
Stored == {k \in Keys : cache[k] # NoEntry}
Unexpired(t) == {k \in Stored : t < cache[k].expiry}

\* C12: in every state the stats have 0 <= valid <= total; get_cache_stats
\* reports as total the number of stored entries, expired ones included, and
\* as valid the number of entries unexpired at the time of the call, and the
\* call leaves every entry in the store.
C12_StatsCount ==
    /\ LET s == CacheStats(cache, now)
       IN  0 <= s.valid_entries /\ s.valid_entries <= s.total_cached
    /\ hist[2].op = "get_cache_stats"
       => /\ hist[2].value.total_cached = Cardinality(Stored)
          /\ hist[2].value.valid_entries = Cardinality(Unexpired(hist[2].at))

\* C12 happens: the stats are read while an entry is stored that has expired
C12_Witness ==
    /\ hist[2].op = "get_cache_stats"
    /\ hist[2].value.valid_entries < hist[2].value.total_cached
    /\ hist[2].value.valid_entries > 0

\* the step is a call _get_cached(key, ...)
GetStep(key) ==
    /\ now' = now
    /\ hist'[1] = hist[2]
    /\ hist'[2].op = "_get_cached"
    /\ hist'[2].key = key

HistoryStep ==
    /\ made' = made + 1
    /\ hist'[2].op = "get_historical_performance"

\* C14: an entry stored with ttl None does not expire: as long as it is in the
\* store, at any time, a get returns it and the stats count it as valid, and
\* get_historical_performance returns it without calling the provider.
C14_PermanentKept ==
    /\ [](cache["history_3"] # NoEntry
          => /\ GetCachedData(cache, "history_3", Permanent, now)
                    = Some(cache["history_3"].data)
             /\ "history_3" \in Unexpired(now))
    /\ [][(HistoryStep /\ cache["history_3"] # NoEntry)
          => /\ hist'[2].ncalls = 0
             /\ hist'[2].value = cache["history_3"].data
             /\ cache' = cache]_vars

\* C14 happens: the history is read at time 0 and again a day later, after the
\* provider's yearly data have changed
C14_Witness ==
    /\ hist[1].op = "get_historical_performance"
    /\ hist[1].at = 0
    /\ hist[1].ncalls = 1
    /\ hist[2].op = "get_historical_performance"
    /\ hist[2].at = DayTTL
    /\ hist[2].ncalls = 0
    /\ HistoryFetch(provider.yearly, 3) # hist[2].value

\* the step is a getter call during which a provider call failed
FailedGetterStep ==
    /\ made' = made + 1
    /\ hist'[2].op \in Getters
    /\ hist'[2].failed # {}

\* C15 as stated: a getter call whose fetch for key K fails leaves the entry
\* (value and expiry) of every other key as it was.
C15_FailureScoped ==
    [][FailedGetterStep
       => \A k \in Keys \ {hist'[2].key} : cache'[k] = cache[k]]_vars

\* the entry of key k is unexpired
Valid(k) == cache[k] # NoEntry /\ now < cache[k].expiry

\* C15 amended: a getter call whose fetch for key K fails leaves the entry of
\* every other key as it was, except that the fetch of get_top_performers reads
\* the roster through get_team_roster and so loads the roster entry when it is
\* missing or expired; an unexpired entry of another key is never changed.
C15_FailureKeepsOthers ==
    [][FailedGetterStep
       => \A k \in Keys \ {hist'[2].key} :
              (\/ hist'[2].op # "get_top_performers"
               \/ k # "roster"
               \/ Valid(k))
              => cache'[k] = cache[k]]_vars

\* C15 happens: the roster is loaded, and then the top performers are read
\* while a player's game log fails, the roster entry being unexpired
C15_Witness ==
    /\ hist[1].op = "get_team_roster"
    /\ hist[1].failed = {}
    /\ hist[1].value # Empty
    /\ hist[2].op = "get_top_performers"
    /\ hist[2].failed # {}
    /\ hist[2].at < hist[1].expiry
    /\ cache["roster"] = Entry(hist[1].value, hist[1].expiry)

\* C16: for a non-empty list of fewer than 20 recent games,
\* analyze_performance_trends does not fail: it returns a trend result.
C16_SmallSampleTrends ==
    (/\ hist[2].op = "analyze_performance_trends"
     /\ cache["games_20"] # NoEntry
     /\ Len(cache["games_20"].data) \in 1..19)
    => /\ ~hist[2].raised
       /\ hist[2].value # Empty

\* the roster players get_top_performers may report: those among the first 10
\* whose game log was fetched and is not empty
Eligible(roster) ==
    {i \in 1..Len(roster) :
        /\ i <= 10
        /\ provider.playerlog[roster[i].player_id].ok
        /\ provider.playerlog[roster[i].player_id].rows # <<>>}

\* the average points of roster player i over the most recent 5 games of the
\* log, in tenths
AvgPoints(roster, i) ==
    LET rows == provider.playerlog[roster[i].player_id].rows
        n == IF Len(rows) < 5 THEN Len(rows) ELSE 5
    IN  Round(Sum([x \in 1..n |-> rows[x].PTS]), n, 10)

\* roster player i comes before roster player j in the report
Before(roster, i, j) ==
    \/ AvgPoints(roster, i) > AvgPoints(roster, j)
    \/ AvgPoints(roster, i) = AvgPoints(roster, j) /\ i < j

\* C17: get_top_performers reports eligible players only (among the first 10
\* of the roster, with a fetched, non-empty game log), at most 5 of them and
\* all of them when there are at most 5, the best by average points, in
\* descending order of average points, equal averages in roster order.
C17_TopPerformers ==
    (/\ hist[2].op = "get_top_performers"
     /\ hist[2].ncalls > 0
     /\ cache["roster"] # NoEntry)
    => LET roster == cache["roster"].data
           top == hist[2].value
           at(j) == CHOOSE i \in 1..Len(roster) : roster[i].player_name = top[j].player_name
           chosen == {at(j) : j \in 1..Len(top)}
       IN  /\ Len(top) = (IF Cardinality(Eligible(roster)) < 5
                          THEN Cardinality(Eligible(roster)) ELSE 5)
           /\ \A j \in 1..Len(top) :
                  /\ \E i \in Eligible(roster) : roster[i].player_name = top[j].player_name
                  /\ top[j].avg_points = AvgPoints(roster, at(j))
           /\ \A j, k \in 1..Len(top) : j < k => Before(roster, at(j), at(k))
           /\ \A i \in Eligible(roster) \ chosen :
                  \A j \in 1..Len(top) : Before(roster, at(j), i)

\* C17 happens: the roster has more than 10 players, a player among the first
\* 10 is skipped, two reported players have equal averages, and the 11th
\* player, with a better average than the last one reported, is left out
C17_Witness ==
    /\ hist[2].op = "get_top_performers"
    /\ hist[2].ncalls > 0
    /\ cache["roster"] # NoEntry
    /\ Len(cache["roster"].data) > 10
    /\ Len(hist[2].value) = 5
    /\ Cardinality(Eligible(cache["roster"].data)) \in 6..9
    /\ hist[2].value[4].avg_points = hist[2].value[5].avg_points
    /\ provider.playerlog[11].ok
    /\ provider.playerlog[11].rows # <<>>
    /\ AvgPoints(cache["roster"].data, 11) > hist[2].value[5].avg_points

\* the trends and the streak a momentum call has read: those of the cached games
TrendsRead == TrendsOf(cache["games_20"].data).value
StreakRead == WinStreakOf(cache["games_20"].data)

\* ten times the score the claim gives, before it is clamped: the recent win
\* rate is in tenths in the trends, and 5 tenths when there are no trends
TenfoldScore(trends, streak) ==
    LET rate == IF trends = Empty THEN 5 ELSE trends.recent_win_rate
        adjust == IF 3 * streak.streak_length < 20 THEN 3 * streak.streak_length ELSE 20
    IN  500 + (rate - 5) * 60
        + (IF streak.streak_type = "winning" THEN 10 * adjust ELSE -10 * adjust)
        + (IF trends = Empty THEN 0
           ELSE IF trends.momentum = "positive" THEN 100
           ELSE IF trends.momentum = "negative" THEN -100 ELSE 0)

\* C18: the momentum score is 50 + (recent_win_rate - 0.5) * 60, plus
\* min(3 * streak_length, 20) for a winning streak and minus it otherwise, plus
\* 10 for positive momentum, minus 10 for negative momentum and 0 without
\* trends, clamped to [0, 100].
C18_MomentumFormula ==
    (/\ hist[2].op = "calculate_momentum_score"
     /\ ~hist[2].raised
     /\ cache["games_20"] # NoEntry)
    => LET x == TenfoldScore(TrendsRead, StreakRead)
       IN  10 * hist[2].value.score = (IF x < 0 THEN 0 ELSE IF x > 1000 THEN 1000 ELSE x)

\* C18 happens: a score strictly inside the range is returned for a streak of
\* more than 6 games, so that the cap of the streak adjustment decides it
C18_Witness ==
    /\ hist[2].op = "calculate_momentum_score"
    /\ ~hist[2].raised
    /\ cache["games_20"] # NoEntry
    /\ StreakRead.streak_length > 7
    /\ TrendsRead # Empty
    /\ hist[2].value.score > 0
    /\ hist[2].value.score < 100

\* C19: the sentiment calculate_momentum_score returns is excellent iff the
\* score it returns is at least 75, positive iff in [60, 75), neutral iff in
\* [40, 60), concerning iff below 40.
C19_SentimentOfScore ==
    (hist[2].op = "calculate_momentum_score" /\ ~hist[2].raised)
    => LET score == hist[2].value.score
           label == hist[2].value.sentiment
       IN  /\ label = "excellent" <=> score >= 75
           /\ label = "positive" <=> (60 <= score /\ score < 75)
           /\ label = "neutral" <=> (40 <= score /\ score < 60)
           /\ label = "concerning" <=> score < 40

\* C19 happens: a score of exactly 75 is returned, with the label excellent
C19_Witness ==
    /\ hist[2].op = "calculate_momentum_score"
    /\ ~hist[2].raised
    /\ hist[2].value.score = 75
    /\ hist[2].value.sentiment = "excellent"

\* the rows of the configured team in the provider's season log
TeamRowsOf(p) == {p.games.rows[i] : i \in {j \in 1..Len(p.games.rows) :
                                              p.games.rows[j].TEAM_ID = TeamId}}

\* the step is a call get_recent_games(n)
RecentGamesStep(n) ==
    /\ made' = made + 1
    /\ hist'[2].op = "get_recent_games"
    /\ hist'[2].key = GamesKey(n)

\* C20: get_recent_games(n) returns at most n games ordered by date
\* descending, also when the list comes from the cache; a list loaded from the
\* provider holds games of the configured team only, the n most recent ones.
C20_RecentGamesOrdered ==
    [][\A n \in {5, 10, 20} :
          RecentGamesStep(n)
          => LET games == hist'[2].value
                 team == TeamRowsOf(provider)
             IN  /\ Len(games) <= n
                 /\ \A i, j \in 1..Len(games) : i < j => games[i].date > games[j].date
                 /\ (hist'[2].ncalls > 0 /\ provider.games.ok)
                    => /\ Len(games) = (IF Cardinality(team) < n
                                        THEN Cardinality(team) ELSE n)
                       /\ \A i \in 1..Len(games) :
                              \E row \in team : Game(row) = games[i]
                       /\ \A row \in team :
                              \/ \E i \in 1..Len(games) : games[i] = Game(row)
                              \/ row.GAME_DATE < games[Len(games)].date]_vars

\* C20 happens: the five most recent of the team's six games are loaded from a
\* season log that is not in date order and holds games of another team
C20_Witness ==
    /\ hist[2].op = "get_recent_games"
    /\ hist[2].key = "games_5"
    /\ hist[2].ncalls > 0
    /\ Len(hist[2].value) = 5
    /\ hist[2].value[1].date = 6
    /\ hist[2].value[5].date = 2
    /\ Cardinality(TeamRowsOf(provider)) = 6
    /\ Len(provider.games.rows) = 8
    /\ provider.games.rows[3].GAME_DATE < provider.games.rows[4].GAME_DATE

\* the step is a call of fetch_all_data, recorded under the given name
ReportStep(name) ==
    /\ made' = made + 1
    /\ hist'[2].op = name

\* the keys fetch_all_data reads
ReportKeys == Keys \ {"games_5"}

\* the entry of key k can be served: it is unexpired, or it is read with ttl None
Reusable(k) == Valid(k) \/ (k = "history_3" /\ cache[k] # NoEntry)

\* what the provider holds for key k at the moment; the top performers are
\* those of the roster the getter would read through cache c
Fresh(c, k) ==
    CASE k = "details" -> DetailsFetch(provider.details)
      [] k = "games_10" -> GamesFetch(provider.games, 10)
      [] k = "games_20" -> GamesFetch(provider.games, 20)
      [] k = "performers_5" -> PerformersFetch(c, provider, now, 5).value
      [] k = "season" -> SeasonFetch(provider.yearly)
      [] k = "standings" -> StandingsFetch(provider.standings)
      [] k = "history_3" -> HistoryFetch(provider.yearly, 3)
      [] k = "roster" -> RosterFetch(provider.roster)

\* the report whose sections are drawn from the data d gives for each key
ReportFrom(d) ==
    [team_info |-> d["details"],
     recent_performance |->
         [recent_games |-> d["games_10"],
          win_streak |-> WinStreakOf(d["games_20"]),
          top_performers |-> d["performers_5"]],
     season_data |->
         [current_season |-> d["season"],
          standings |-> d["standings"],
          historical |-> d["history_3"]],
     trends |-> TrendsOf(d["games_20"]).value,
     metrics |-> MetricsOf(d["games_20"]).value,
     competitive_context |-> ContextOf(d["standings"]),
     momentum |-> MomentumOf(TrendsOf(d["games_20"]).value, WinStreakOf(d["games_20"])),
     roster |-> d["roster"]]

\* C21: fetch_all_data(force_refresh=True) clears the cache before it fetches:
\* every section of the report it returns is what the provider holds during the
\* call, and every entry it leaves holds that data under an expiry counted from
\* the call; with force_refresh false every entry that can still be served is
\* left as it is and its data are the report's section.
C21_ForceRefresh ==
    /\ [][ReportStep("fetch_all_data(True)")
          => /\ ~hist'[2].raised
                => hist'[2].value = ReportFrom([k \in ReportKeys |-> Fresh(EmptyCache, k)])
             /\ \A k \in ReportKeys :
                    cache'[k] # NoEntry
                    => /\ cache'[k].data = Fresh(EmptyCache, k)
                       /\ cache'[k].expiry \in {now + FreshTTL, now + SessionTTL,
                                                now + DayTTL, DatetimeMax}]_vars
    /\ [][ReportStep("fetch_all_data")
          => /\ \A k \in ReportKeys : Reusable(k) => cache'[k] = cache[k]
             /\ ~hist'[2].raised
                => hist'[2].value =
                       ReportFrom([k \in ReportKeys |->
                                      IF Reusable(k) THEN cache[k].data
                                      ELSE Fresh(cache, k)])]_vars

\* C21 happens: a report is built, the provider's data change, and a second
\* report is forced while every entry of the first is unexpired; it differs
\* from the first
C21_Witness ==
    /\ hist[1].op = "fetch_all_data"
    /\ ~hist[1].raised
    /\ hist[1].ncalls > 0
    /\ hist[2].op = "fetch_all_data(True)"
    /\ ~hist[2].raised
    /\ hist[2].at = hist[1].at
    /\ hist[2].value # hist[1].value
    /\ hist[2].ncalls = hist[1].ncalls

\* the step is a call of a derivation
DerivationStep ==
    /\ made' = made + 1
    /\ hist'[2].op \in Derivations

\* the primitive key a derivation reads
PrimitiveOf(op) == IF op = "get_competitive_context" THEN "standings" ELSE "games_20"

\* what a derivation gives for the data of the primitive it reads: its value,
\* or that it raises
DerivationOf(op, data) ==
    CASE op = "get_team_win_streak" -> Returns(WinStreakOf(data))
      [] op = "analyze_performance_trends" -> TrendsOf(data)
      [] op = "get_performance_metrics" -> MetricsOf(data)
      [] op = "get_competitive_context" -> Returns(ContextOf(data))
      [] op = "calculate_momentum_score" ->
             IF TrendsOf(data).raised THEN Raised
             ELSE Returns(MomentumOf(TrendsOf(data).value, WinStreakOf(data)))

\* C22: a derivation is not stored: a call changes no entry but that of the
\* primitive key it reads, which it leaves as it was when it can be served and
\* else reloads from the provider, and what the call gives is derived from the
\* data that entry holds when the call returns.
C22_DerivationsNotStored ==
    [][DerivationStep
       => LET key == PrimitiveOf(hist'[2].op)
              derived == DerivationOf(hist'[2].op, cache'[key].data)
          IN  /\ \A k \in Keys \ {key} : cache'[k] = cache[k]
              /\ cache'[key] # NoEntry
              /\ cache'[key] = IF Valid(key) THEN cache[key]
                               ELSE Entry(Fresh(cache, key), now + FreshTTL)
              /\ hist'[2].raised = derived.raised
              /\ hist'[2].value = derived.value]_vars

\* C22 happens: the games are cached, the team plays another game and time
\* passes within the TTL; the momentum score is computed from the cached
\* games, and then the competitive context from standings it loads
C22_Witness ==
    /\ hist[1].op = "calculate_momentum_score"
    /\ hist[1].ncalls = 0
    /\ hist[2].op = "get_competitive_context"
    /\ hist[2].ncalls = 1
    /\ cache["standings"].expiry > cache["games_20"].expiry
    /\ now < cache["games_20"].expiry
    /\ GamesFetch(provider.games, 20) # cache["games_20"].data

\* C23: a read hands the caller a copy: when the caller has changed the list a
\* getter handed it, the same getter, called again while the entry the first
\* call left is unexpired, returns what the first call returned.
C23_ReadsAreCopies ==
    [][(/\ made' = made + 1
        /\ hist[1].op \in Getters
        /\ hist[2].op = "caller_changes"
        /\ hist[2].key = hist[1].key
        /\ hist'[2].op = hist[1].op
        /\ hist'[2].key = hist[1].key
        /\ now < hist[1].expiry)
       => hist'[2].value = hist[1].value]_vars

\* C24: a fetch_all_data call that starts from an empty cache and returns has
\* made 5 calls to the provider in total, and has left an entry for every key
\* it read.
C24_FiveProviderCalls ==
    [][((ReportStep("fetch_all_data") \/ ReportStep("fetch_all_data(True)"))
        /\ cache = EmptyCache
        /\ ~hist'[2].raised)
       => /\ hist'[2].ncalls = 5
          /\ \A k \in ReportKeys : cache'[k] # NoEntry]_vars

\* C25: within one calculate_momentum_score call the trends and the streak are
\* derived from the same list of games: the entry of games_20 the second read
\* returns holds the list the first read returned, and the score is that of
\* its trends and its streak.
C25_SameSnapshot ==
    [][(/\ threads[1].pc = "streak"
        /\ made' = made + 1
        /\ hist'[2].op = "calculate_momentum_score")
       => /\ cache'["games_20"].data = threads[1].entry.data
          /\ hist'[2].value = MomentumOf(TrendsOf(cache'["games_20"].data).value,
                                         WinStreakOf(cache'["games_20"].data))]_vars

\* C26: for a non-empty list of games, the recent_record of get_team_win_streak
\* has wins + losses = min(10, number of games), its wins being the W results
\* and its losses the other results among the 10 most recent games.
C26_RecentRecord ==
    (/\ hist[2].op = "get_team_win_streak"
     /\ cache["games_20"] # NoEntry
     /\ Len(cache["games_20"].data) > 0)
    => LET games == cache["games_20"].data
           recent == Take(games, 10)
           record == hist[2].value.recent_record
       IN  /\ record.wins + record.losses = Min(10, Len(games))
           /\ record.wins = CountResult(recent, "W")
           /\ record.losses = Len(recent) - CountResult(recent, "W")

\* C27: get_performance_metrics does not fail for any number of games: for no
\* game it returns all zeros with consistency unknown, and for k >= 1 games a
\* result with wins + losses = k.
C27_MetricsNeverFail ==
    (/\ hist[2].op = "get_performance_metrics"
     /\ cache["games_20"] # NoEntry)
    => LET k == Len(cache["games_20"].data)
       IN  /\ ~hist[2].raised
           /\ k = 0 => hist[2].value =
                  [win_rate |-> 0, wins |-> 0, losses |-> 0, avg_points |-> 0,
                   avg_margin |-> 0, avg_fg_pct |-> 0, consistency |-> "unknown"]
           /\ k >= 1 => hist[2].value.wins + hist[2].value.losses = k

\* C28: with no game available calculate_momentum_score returns score 50,
\* sentiment neutral and trend stable, and with absent standings
\* get_competitive_context returns rank 15, tier unknown, win percentage 0.5
\* and 0 games back; neither raises.
C28_NeutralFallbacks ==
    /\ (/\ hist[2].op = "calculate_momentum_score"
        /\ cache["games_20"] # NoEntry
        /\ cache["games_20"].data = Empty)
       => /\ ~hist[2].raised
          /\ hist[2].value = [score |-> 50, sentiment |-> "neutral", trend |-> "stable"]
    /\ (/\ hist[2].op = "get_competitive_context"
        /\ cache["standings"] # NoEntry
        /\ cache["standings"].data = Empty)
       => /\ ~hist[2].raised
          /\ hist[2].value.league_rank = 15
          /\ hist[2].value.competitive_tier = "unknown"
          /\ hist[2].value.win_pct = 500
          /\ hist[2].value.games_back = 0

\* C28 happens: the game log raises and the team is missing from the
\* standings; the momentum score and then the competitive context are read,
\* each after a call to the provider
C28_Witness ==
    /\ hist[1].op = "calculate_momentum_score"
    /\ hist[1].failed = {"games"}
    /\ hist[1].value.score = 50
    /\ hist[2].op = "get_competitive_context"
    /\ hist[2].ncalls = 1
    /\ hist[2].failed = {}
    /\ hist[2].value.league_rank = 15
    /\ cache["games_20"].data = Empty
    /\ cache["standings"].data = Empty

====
